---------------------------- MODULE Spec2Model ----------------------------
(***************************************************************************)
(* The registry token cache of src/src/token_cache.rs: a BTreeMap from     *)
(* (registry, repository, operation) to (token, expiration) behind a       *)
(* tokio RwLock, written by insert and read by get.  Callers are tasks     *)
(* holding clones of the TokenCache handle.                                *)
(***************************************************************************)
EXTENDS Integers, Sequences, FiniteSets, TLC

(* ---------------------------------------------------------------- bounds *)

\* number of concurrent tasks calling insert/get
NumTasks == 2

\* total number of insert/get calls started in one behaviour
MaxCalls == 3

\* width in bits of a u64 word (scaled down from 64)
WordBits == 2

(* ------------------------------------------------------------- constants *)

\* u64::MAX at that width
U64_MAX == (2 ^ WordBits) - 1

Tasks == 1 .. NumTasks

\* Option::None of an Option<u64>
NoU64 == -1

(* --------------------------------------------------------- the token model *)

\* A bearer string as the JWT parser sees it: the number of '.'-separated
\* components, whether header and claims decode (base64 + JSON), and the
\* registered `exp` claim (NoU64 when the claim set carries none).
TokenStr(name, components, decodes, exp) ==
    [name |-> name, components |-> components, decodes |-> decodes, exp |-> exp]

\* RegistryToken::Token { token }
Token(s) == [variant |-> "Token", value |-> s]

\* RegistryToken::AccessToken { access_token }
AccessToken(s) == [variant |-> "AccessToken", value |-> s]

\* RegistryToken::token(): the string of either variant
token(t) == t.value

\* RegistryTokenType::Bearer(RegistryToken)
Bearer(t) == [type |-> "Bearer", bearer |-> t]

\* RegistryTokenType::Basic(username, password)
Basic(u, p) == [type |-> "Basic", username |-> u, password |-> p]

\* Option::None of an Option<RegistryTokenType>
None == [type |-> "None"]

\* RegistryOperation
RegistryOperation == {"Push", "Pull"}

\* The image references callers hold: pairs differing only in the registry,
\* only in the repository, or in both.
References ==
    { [registry |-> "docker.io", repository |-> "library/busybox"],
      [registry |-> "docker.io", repository |-> "team/app"],
      [registry |-> "registry.example.com", repository |-> "team/app"] }

\* Reference::resolve_registry()
resolve_registry(reference) == reference.registry

\* Reference::repository()
repository(reference) == reference.repository

\* (variant: the operation is left out of the key)
TokenCacheKey_no_operation(reference, op) ==
    [registry |-> resolve_registry(reference),
     repository |-> repository(reference),
     operation |-> "Pull"]

\* TokenCacheKey { registry, repository, operation }
TokenCacheKey(reference, op) ==
    [registry |-> resolve_registry(reference),
     repository |-> repository(reference),
     operation |-> op]

\* The (reference, operation) pairs callers ask for: among them pairs
\* differing only in the operation, only in the repository, only in the
\* registry.
RequestList ==
    << <<[registry |-> "docker.io", repository |-> "library/busybox"], "Pull">>,
       <<[registry |-> "docker.io", repository |-> "library/busybox"], "Push">>,
       <<[registry |-> "docker.io", repository |-> "team/app"], "Pull">>,
       <<[registry |-> "registry.example.com", repository |-> "team/app"], "Pull">> >>

Requests == { RequestList[i] : i \in DOMAIN RequestList }

\* Every (registry, repository, operation) triple over the names in use
Keys ==
    [registry : {r.registry : r \in References},
     repository : {r.repository : r \in References},
     operation : RegistryOperation]

\* TokenCacheValue { token, expiration }
TokenCacheValue(tok, expiration) == [token |-> tok, expiration |-> expiration]

\* The credentials the token exchange hands to insert.
\* basic credentials; a well-formed JWT with an exp claim; a well-formed
\* JWT whose claim set has no exp; an opaque string without any '.'
AcceptedTokenList ==
    << Basic("user", "pass"),
       Bearer(Token(TokenStr("jwt-exp", 3, TRUE, 1))),
       Bearer(AccessToken(TokenStr("jwt-noexp", 3, TRUE, NoU64))),
       Bearer(Token(TokenStr("opaque", 1, FALSE, NoU64))) >>

\* three components whose claims do not decode; header.claims without
\* a signature
MalformedTokens ==
    { Bearer(Token(TokenStr("garbled", 3, FALSE, NoU64))),
      Bearer(Token(TokenStr("unsigned", 2, TRUE, 1))) }

InputTokens ==
    { AcceptedTokenList[i] : i \in DOMAIN AcceptedTokenList } \cup MalformedTokens

\* Default token expirations a cache may be configured with: 0 is what
\* #[derive(Default)] gives, the largest value is the other end of the
\* field's range.
DefaultExpirations == {0, U64_MAX}

(* ------------------------------------------------- the expiration resolver *)

\* (variant: a string of fewer than three components is reported as
\* lacking its claims)
parse_unverified_short(s) ==
    IF s.components <= 2 THEN [ok |-> FALSE, err |-> "NoClaimsComponent", expiration |-> NoU64]
    ELSE IF s.components > 3 THEN [ok |-> FALSE, err |-> "TooManyComponents", expiration |-> NoU64]
    ELSE IF ~s.decodes THEN [ok |-> FALSE, err |-> "Format", expiration |-> NoU64]
    ELSE [ok |-> TRUE, err |-> "", expiration |-> s.exp]

\* jwt::Token::parse_unverified: Ok with the claims' registered expiration,
\* or the error the parser reports.
parse_unverified(s) ==
    IF s.components = 1 THEN [ok |-> FALSE, err |-> "NoClaimsComponent", expiration |-> NoU64]
    ELSE IF s.components = 2 THEN [ok |-> FALSE, err |-> "NoSignatureComponent", expiration |-> NoU64]
    ELSE IF s.components > 3 THEN [ok |-> FALSE, err |-> "TooManyComponents", expiration |-> NoU64]
    ELSE IF ~s.decodes THEN [ok |-> FALSE, err |-> "Format", expiration |-> NoU64]
    ELSE [ok |-> TRUE, err |-> "", expiration |-> s.exp]

\* u64 addition, wrapping at the word width (what a build without overflow
\* checks computes)
AddU64(a, b) == (a + b) % (2 ^ WordBits)

\* (variant: the claim is ignored)
unwrap_or_ignored(opt, dflt) == dflt

\* Option<u64>::unwrap_or
unwrap_or(opt, dflt) == IF opt = NoU64 THEN dflt ELSE opt

\* (variant: any parse error falls back to the default validity)
BearerExpiration_lenient(parsed, epoch, default_secs) ==
    IF parsed.ok
      THEN [reject |-> FALSE,
            expiration |-> unwrap_or(parsed.expiration, U64_MAX),
            epoch |-> NoU64]
      ELSE [reject |-> FALSE,
            expiration |-> AddU64(epoch, default_secs),
            epoch |-> epoch]

\* The inner match of insert, on the parser's result: the expiration to
\* store, or a rejection (the early return); `epoch` is the clock value the
\* branch read, if it read the clock.
BearerExpiration(parsed, epoch, default_secs) ==
    IF parsed.ok
      THEN [reject |-> FALSE,
            expiration |-> unwrap_or(parsed.expiration, U64_MAX),
            epoch |-> NoU64]
    ELSE IF parsed.err = "NoClaimsComponent"
      THEN [reject |-> FALSE,
            expiration |-> AddU64(epoch, default_secs),
            epoch |-> epoch]
    ELSE [reject |-> TRUE, expiration |-> NoU64, epoch |-> NoU64]

\* The fallback addition `epoch + self.default_expiration_secs as u64`
\* exceeds u64::MAX.
Overflows(resolved, default_secs) ==
    /\ resolved.epoch # NoU64
    /\ resolved.epoch + default_secs > U64_MAX

\* (variant: basic credentials get the default validity)
Expiration_basic_default(tok, epoch, default_secs) ==
    IF tok.type = "Basic"
      THEN [reject |-> FALSE,
            expiration |-> AddU64(epoch, default_secs),
            epoch |-> epoch]
      ELSE BearerExpiration(parse_unverified(token(tok.bearer)), epoch, default_secs)

\* The `let expiration = match token { .. }` of insert.
Expiration(tok, epoch, default_secs) ==
    IF tok.type = "Basic"
      THEN [reject |-> FALSE, expiration |-> U64_MAX, epoch |-> NoU64]
      ELSE BearerExpiration(parse_unverified(token(tok.bearer)), epoch, default_secs)

\* (variant: an existing entry is kept, as entry().or_insert() would)
BTreeMapInsert_or_insert(map, key, value) ==
    [k \in (DOMAIN map) \cup {key} |->
        IF k = key /\ k \notin DOMAIN map THEN value ELSE map[k]]

\* (variant: the fields are written one by one and the expiration of an
\* existing entry is left behind)
BTreeMapInsert_field_by_field(map, key, value) ==
    [k \in (DOMAIN map) \cup {key} |->
        IF k # key THEN map[k]
        ELSE IF /\ k \in DOMAIN map
                /\ "expiration" \in DOMAIN value
                /\ "expiration" \in DOMAIN map[k]
          THEN [value EXCEPT !.expiration = map[k].expiration]
          ELSE value]

\* (variant: the map is rebuilt around the new entry)
BTreeMapInsert_rebuilt(map, key, value) == [k \in {key} |-> value]

\* BTreeMap::insert: the entry of `key` becomes `value`, whatever it was
BTreeMapInsert(map, key, value) ==
    [k \in (DOMAIN map) \cup {key} |-> IF k = key THEN value ELSE map[k]]

\* BTreeMap::get: Some(value) or None
BTreeMapGet(map, key) ==
    IF key \in DOMAIN map THEN [some |-> TRUE, value |-> map[key]]
    ELSE [some |-> FALSE, value |-> TokenCacheValue(None, NoU64)]

\* (variant: the boundary second counts as expired)
Expired_inclusive(epoch, expiration) == epoch >= expiration

\* The freshness test of get: `epoch > *expiration`
Expired(epoch, expiration) == epoch > expiration

(* ------------------------------------------------------------------ state *)

VARIABLES
    tokens,                   \* the BTreeMap: a function on the keys present
    default_expiration_secs,  \* the cache's configuration scalar
    now,                      \* wall clock, seconds since the epoch
    readers,                  \* tasks holding a read guard of the RwLock
    writer,                   \* task holding the write guard, or 0
    waiters,                  \* FIFO queue of tasks waiting for the RwLock
    pc,                       \* where each task is
    call,                     \* the arguments and locals of each task's call
    last,                     \* the call that completed last, and what it returned
    calls,                    \* number of calls started
    rejected_over,            \* history: per key whose latest insert carried a
                              \* malformed token, the lookup of the key at that insert
    log,                      \* the tracing events of the latest step
    clones,                   \* the TokenCache values in existence and their Arcs
    server                    \* the kubelet callback server

cache_vars == <<tokens, default_expiration_secs, now, readers, writer, waiters,
                pc, call, last, calls, rejected_over>>

vars == <<tokens, default_expiration_secs, now, readers, writer, waiters,
          pc, call, last, calls, rejected_over, log, clones, server>>

aux_vars == <<log, clones, server>>

NoReference == [registry |-> "", repository |-> ""]

NoKey == [registry |-> "", repository |-> "", operation |-> ""]

\* What a TokenCache value is doing: nothing, or which call it is in.
NoHandleCall == [key |-> NoKey, token |-> None, expiration |-> NoU64]

\* A TokenCache value: `tokens` is an Arc, named here by the allocation it
\* points to; `pc` and `call` are those of the task that owns the value.
TokenCacheHandle(arc, default_secs) ==
    [arc |-> arc, default_expiration_secs |-> default_secs,
     pc |-> "idle", call |-> NoHandleCall]

\* An allocation: the RwLock (who holds it) and the map inside it.
NewStore == [tokens |-> << >>, readers |-> {}, writer |-> 0]

\* no get has returned yet
NoSeen == [handle |-> 0, key |-> NoKey, token |-> None]

\* TokenCache::new: one value, one allocation, an empty map.
\* written: per key the latest accepted insert and the handle it went through;
\* seen: the latest result of a get; ops: calls started.
InitClones(default_secs) ==
    [handles |-> <<TokenCacheHandle(1, default_secs)>>,
     heap |-> <<NewStore>>,
     written |-> << >>,
     seen |-> NoSeen,
     ops |-> 0]

\* no request has been answered yet
NoExchange == [conn |-> 0, method |-> "", path |-> << >>,
               logs |-> [ok |-> FALSE, data |-> ""],
               response |-> [status |-> 0, body |-> "", arg |-> << >>]]

\* The callback server once it listens.
\* incoming: the connection attempts the listener has not handed out yet;
\* arrived: how many attempts there have been; taken: the attempts the
\* accept loop has consumed; accepting: the loop is running; yielded: the
\* connections given to hyper; exchange: the latest request and its
\* response; requests: requests answered.
InitServer ==
    [incoming |-> << >>, arrived |-> 0, taken |-> << >>, accepting |-> TRUE,
     yielded |-> << >>, exchange |-> NoExchange, requests |-> 0]

NoCall == [reference |-> NoReference, op |-> "", key |-> NoKey, token |-> None,
           expiration |-> NoU64, epoch |-> NoU64]

\* fn: "insert" or "get"; token: the argument of insert, the result of get;
\* present/expiration: the entry found by get, or the one replaced by insert;
\* epoch: the clock value the call read; raced: another call was in flight
\* when this one touched the map.
NoLast == [fn |-> "", reference |-> NoReference, op |-> "", token |-> None,
           stored |-> FALSE, present |-> FALSE, expiration |-> NoU64,
           epoch |-> NoU64, raced |-> FALSE]

\* A bearer token the parser fails on for a reason other than the missing
\* claims component.
Malformed(tok) ==
    /\ tok.type = "Bearer"
    /\ token(tok.bearer).components # 1
    /\ ~(token(tok.bearer).components = 3 /\ token(tok.bearer).decodes)

(* --------------------------------------------------------------- the lock *)

\* (variant: a read is granted while a writer holds the lock)
CanRead_ignores_writer == waiters = << >>

\* (variant: a plain mutex, a read is granted only when nobody holds the lock)
CanRead_mutex == writer = 0 /\ readers = {} /\ waiters = << >>

\* RwLock::read() is granted at once iff no writer holds the lock and nobody
\* is queued; RwLock::write() iff nobody holds the lock and nobody is queued.
CanRead == writer = 0 /\ waiters = << >>

CanWrite == writer = 0 /\ readers = {} /\ waiters = << >>

\* (variant: dropping a guard frees the lock and wakes nobody)
Release_no_wakeup(rs, w, q) == [readers |-> rs, writer |-> w, waiters |-> q]

\* Dropping a guard hands the lock to the queue in FIFO order: to the
\* writer at its head if the lock is free, else to the readers at its head.
RECURSIVE Release(_, _, _)
Release(rs, w, q) ==
    IF q = << >> THEN [readers |-> rs, writer |-> w, waiters |-> q]
    ELSE LET h == Head(q) IN
         IF pc[h] = "insert_write"
           THEN IF rs = {} /\ w = 0
                  THEN [readers |-> rs, writer |-> h, waiters |-> Tail(q)]
                  ELSE [readers |-> rs, writer |-> w, waiters |-> q]
           ELSE IF w = 0
                  THEN Release(rs \cup {h}, w, Tail(q))
                  ELSE [readers |-> rs, writer |-> w, waiters |-> q]

(* ---------------------------------------------------------------- actions *)

Init ==
    /\ tokens = << >>
    /\ default_expiration_secs \in DefaultExpirations
    /\ now = 0
    /\ readers = {}
    /\ writer = 0
    /\ waiters = << >>
    /\ pc = [t \in Tasks |-> "idle"]
    /\ call = [t \in Tasks |-> NoCall]
    /\ last = NoLast
    /\ calls = 0
    /\ rejected_over = << >>
    /\ log = << >>
    /\ clones = InitClones(default_expiration_secs)
    /\ server = InitServer

\* The wall clock advances.
Tick ==
    /\ now < U64_MAX
    /\ now' = now + 1
    /\ UNCHANGED <<tokens, default_expiration_secs, readers, writer, waiters,
                   pc, call, last, calls, rejected_over>>

\* insert, from its entry to the early return or to `self.tokens.write()`.
Insert(t, reference, op, tok) ==
    LET resolved == Expiration(tok, now, default_expiration_secs)
        key == TokenCacheKey(reference, op)
    IN
    /\ pc[t] = "idle"
    /\ calls' = calls + 1
    /\ rejected_over' =
         IF Malformed(tok)
           THEN BTreeMapInsert(rejected_over, key, BTreeMapGet(tokens, key))
           ELSE rejected_over
    /\ \/ IF resolved.reject
            THEN /\ last' = [NoLast EXCEPT !.fn = "insert", !.reference = reference,
                                           !.op = op, !.token = tok]
                 /\ UNCHANGED <<pc, call, readers, writer, waiters>>
            ELSE /\ call' = [call EXCEPT ![t] =
                       [reference |-> reference, op |-> op, key |-> key,
                        token |-> tok, expiration |-> resolved.expiration,
                        epoch |-> resolved.epoch]]
                 /\ pc' = [pc EXCEPT ![t] = "insert_write"]
                 /\ IF CanWrite
                      THEN writer' = t /\ UNCHANGED <<readers, waiters>>
                      ELSE waiters' = Append(waiters, t) /\ UNCHANGED <<readers, writer>>
                 /\ UNCHANGED last
       \/ \* a build with overflow checks panics in the addition
          /\ Overflows(resolved, default_expiration_secs)
          /\ call' = [call EXCEPT ![t] =
                [reference |-> reference, op |-> op, key |-> key,
                 token |-> tok, expiration |-> NoU64,
                 epoch |-> resolved.epoch]]
          /\ pc' = [pc EXCEPT ![t] = "panicked"]
          /\ UNCHANGED <<last, readers, writer, waiters>>
    /\ UNCHANGED <<tokens, default_expiration_secs, now>>

\* insert, holding the write guard: the map insert, then the guard drops.
InsertWrite(t) ==
    LET c == call[t]
        old == BTreeMapGet(tokens, c.key)
        free == Release({}, 0, waiters)
    IN
    /\ pc[t] = "insert_write"
    /\ writer = t
    /\ tokens' = BTreeMapInsert(tokens, c.key, TokenCacheValue(c.token, c.expiration))
    /\ rejected_over' =
         IF Malformed(c.token) THEN rejected_over
         ELSE [k \in (DOMAIN rejected_over) \ {c.key} |-> rejected_over[k]]
    /\ readers' = free.readers
    /\ writer' = free.writer
    /\ waiters' = free.waiters
    /\ pc' = [pc EXCEPT ![t] = "idle"]
    /\ call' = [call EXCEPT ![t] = NoCall]
    /\ last' = [fn |-> "insert", reference |-> c.reference, op |-> c.op,
                token |-> c.token, stored |-> TRUE, present |-> old.some,
                expiration |-> old.value.expiration, epoch |-> c.epoch,
                raced |-> \E u \in Tasks \ {t} : pc[u] \in {"insert_write", "get_read"}]
    /\ UNCHANGED <<default_expiration_secs, now, calls>>

\* get, from its entry to `self.tokens.read()`.
Get(t, reference, op) ==
    /\ pc[t] = "idle"
    /\ calls' = calls + 1
    /\ call' = [call EXCEPT ![t] =
           [NoCall EXCEPT !.reference = reference, !.op = op,
                          !.key = TokenCacheKey(reference, op)]]
    /\ pc' = [pc EXCEPT ![t] = "get_read"]
    /\ IF CanRead
         THEN readers' = readers \cup {t} /\ UNCHANGED <<writer, waiters>>
         ELSE waiters' = Append(waiters, t) /\ UNCHANGED <<readers, writer>>
    /\ UNCHANGED <<tokens, default_expiration_secs, now, last, rejected_over>>

\* get, holding the read guard: the lookup, the clock read and the
\* freshness test, then the guard drops.
GetRead(t) ==
    LET c == call[t]
        found == BTreeMapGet(tokens, c.key)
        free == Release(readers \ {t}, 0, waiters)
    IN
    /\ pc[t] = "get_read"
    /\ t \in readers
    /\ last' = [fn |-> "get", reference |-> c.reference, op |-> c.op,
                token |-> IF found.some /\ ~Expired(now, found.value.expiration)
                            THEN found.value.token ELSE None,
                stored |-> FALSE, present |-> found.some,
                expiration |-> found.value.expiration,
                epoch |-> IF found.some THEN now ELSE NoU64,
                raced |-> \E u \in Tasks \ {t} : pc[u] \in {"insert_write", "get_read"}]
    /\ readers' = free.readers
    /\ writer' = free.writer
    /\ waiters' = free.waiters
    /\ pc' = [pc EXCEPT ![t] = "idle"]
    /\ call' = [call EXCEPT ![t] = NoCall]
    /\ UNCHANGED <<tokens, default_expiration_secs, now, calls, rejected_over>>

\* Any tasks, any arguments, any interleaving.
Next ==
    \/ Tick /\ UNCHANGED aux_vars
    \/ /\ calls < MaxCalls
       /\ \E t \in Tasks, rq \in Requests, tok \in InputTokens :
             Insert(t, rq[1], rq[2], tok)
       /\ UNCHANGED aux_vars
    \/ (\E t \in Tasks : InsertWrite(t)) /\ UNCHANGED aux_vars
    \/ /\ calls < MaxCalls
       /\ \E t \in Tasks, rq \in Requests : Get(t, rq[1], rq[2])
       /\ UNCHANGED aux_vars
    \/ (\E t \in Tasks : GetRead(t)) /\ UNCHANGED aux_vars

Spec == Init /\ [][Next]_vars

(* ------------------------------------------- inserts on disjoint keys *)

\* Each task has a request and a token of its own.
OwnRequest(t) == RequestList[((t - 1) % Len(RequestList)) + 1]

OwnKey(t) == TokenCacheKey(OwnRequest(t)[1], OwnRequest(t)[2])

OwnToken(t) == AcceptedTokenList[((t - 1) % Len(AcceptedTokenList)) + 1]

\* Every task inserts its own token under its own key, concurrently with
\* the others; once all entries are stored the tasks get any of the keys,
\* concurrently again.
NextDisjoint ==
    \/ Tick /\ UNCHANGED aux_vars
    \/ /\ \E t \in Tasks :
             /\ OwnKey(t) \notin DOMAIN tokens
             /\ Insert(t, OwnRequest(t)[1], OwnRequest(t)[2], OwnToken(t))
       /\ UNCHANGED aux_vars
    \/ (\E t \in Tasks : InsertWrite(t)) /\ UNCHANGED aux_vars
    \/ /\ \A u \in Tasks : OwnKey(u) \in DOMAIN tokens
       /\ calls < 2 * NumTasks
       /\ \E t, u \in Tasks : Get(t, OwnRequest(u)[1], OwnRequest(u)[2])
       /\ UNCHANGED aux_vars
    \/ (\E t \in Tasks : GetRead(t)) /\ UNCHANGED aux_vars

SpecDisjoint == Init /\ [][NextDisjoint]_vars

(* ------------------------------------------------- clones of the cache *)

MaxClones == 3

MaxCloneOps == 3

\* (variant: clone copies the map into an allocation of its own)
CloneOf_deep_copy(cl, h) ==
    [cl EXCEPT !.handles = Append(@, TokenCacheHandle(Len(cl.heap) + 1,
                                         cl.handles[h].default_expiration_secs)),
               !.heap = Append(@, [NewStore EXCEPT
                                     !.tokens = cl.heap[cl.handles[h].arc].tokens])]

\* #[derive(Clone)]: Arc::clone of `tokens` (the same allocation) and a copy
\* of default_expiration_secs.
CloneOf(cl, h) ==
    [cl EXCEPT !.handles = Append(@, TokenCacheHandle(cl.handles[h].arc,
                                         cl.handles[h].default_expiration_secs))]

Handles == DOMAIN clones.handles

\* the allocation handle h points to
StoreOf(h) == clones.heap[clones.handles[h].arc]

\* cache.clone()
CloneCache(h) ==
    /\ Len(clones.handles) < MaxClones
    /\ clones' = CloneOf(clones, h)

\* insert through handle h, up to the write guard being granted
\* (the call waits while the lock of its allocation is held).
CloneInsert(h, reference, op, tok) ==
    LET hd == clones.handles[h]
        resolved == Expiration(tok, now, hd.default_expiration_secs)
    IN
    /\ hd.pc = "idle"
    /\ clones.ops < MaxCloneOps
    /\ ~resolved.reject
    /\ StoreOf(h).writer = 0 /\ StoreOf(h).readers = {}
    /\ clones' = [clones EXCEPT
          !.handles[h].pc = "insert_write",
          !.handles[h].call = [key |-> TokenCacheKey(reference, op), token |-> tok,
                               expiration |-> resolved.expiration],
          !.heap[hd.arc].writer = h,
          !.ops = @ + 1]

\* insert through handle h: the map insert, then the guard drops.
CloneInsertWrite(h) ==
    LET hd == clones.handles[h] IN
    /\ hd.pc = "insert_write"
    /\ clones' = [clones EXCEPT
          !.handles[h].pc = "idle",
          !.handles[h].call = NoHandleCall,
          !.heap[hd.arc].tokens =
              BTreeMapInsert(@, hd.call.key,
                             TokenCacheValue(hd.call.token, hd.call.expiration)),
          !.heap[hd.arc].writer = 0,
          !.written = BTreeMapInsert(@, hd.call.key,
                          [token |-> hd.call.token,
                           expiration |-> hd.call.expiration, handle |-> h])]

\* get through handle h, up to the read guard being granted.
CloneGet(h, reference, op) ==
    LET hd == clones.handles[h] IN
    /\ hd.pc = "idle"
    /\ clones.ops < MaxCloneOps
    /\ StoreOf(h).writer = 0
    /\ clones' = [clones EXCEPT
          !.handles[h].pc = "get_read",
          !.handles[h].call = [NoHandleCall EXCEPT !.key = TokenCacheKey(reference, op)],
          !.heap[hd.arc].readers = @ \cup {h},
          !.ops = @ + 1]

\* get through handle h: the lookup and the freshness test, then the guard drops.
CloneGetRead(h) ==
    LET hd == clones.handles[h]
        found == BTreeMapGet(StoreOf(h).tokens, hd.call.key)
    IN
    /\ hd.pc = "get_read"
    /\ clones' = [clones EXCEPT
          !.handles[h].pc = "idle",
          !.handles[h].call = NoHandleCall,
          !.heap[hd.arc].readers = @ \ {h},
          !.seen = [handle |-> h, key |-> hd.call.key,
                    token |-> IF found.some /\ ~Expired(now, found.value.expiration)
                                THEN found.value.token ELSE None]]

\* One cache, cloned; inserts and gets through any of the clones.
NextClones ==
    \/ (\E h \in Handles : CloneCache(h))
          /\ UNCHANGED <<cache_vars, log, server>>
    \/ (\E h \in Handles, rq \in Requests, tok \in InputTokens :
             CloneInsert(h, rq[1], rq[2], tok))
          /\ UNCHANGED <<cache_vars, log, server>>
    \/ (\E h \in Handles : CloneInsertWrite(h))
          /\ UNCHANGED <<cache_vars, log, server>>
    \/ (\E h \in Handles, rq \in Requests : CloneGet(h, rq[1], rq[2]))
          /\ UNCHANGED <<cache_vars, log, server>>
    \/ (\E h \in Handles : CloneGetRead(h))
          /\ UNCHANGED <<cache_vars, log, server>>

SpecClones == Init /\ [][NextClones]_vars

(* ------------------------------------------------------ fair scheduling *)

MaxLiveCalls == 2

\* The cache under a bounded number of calls.
NextLive ==
    \/ Tick /\ UNCHANGED aux_vars
    \/ /\ calls < MaxLiveCalls
       /\ \E t \in Tasks, rq \in Requests, tok \in InputTokens :
             Insert(t, rq[1], rq[2], tok)
       /\ UNCHANGED aux_vars
    \/ (\E t \in Tasks : InsertWrite(t)) /\ UNCHANGED aux_vars
    \/ /\ calls < MaxLiveCalls
       /\ \E t \in Tasks, rq \in Requests : Get(t, rq[1], rq[2])
       /\ UNCHANGED aux_vars
    \/ (\E t \in Tasks : GetRead(t)) /\ UNCHANGED aux_vars

\* The runtime keeps polling a task that holds a guard: the section under
\* the guard has no await in it, so the holder runs to the drop.
Fairness ==
    \A t \in Tasks :
        /\ WF_vars(InsertWrite(t) /\ UNCHANGED aux_vars)
        /\ WF_vars(GetRead(t) /\ UNCHANGED aux_vars)

SpecLive == Init /\ [][NextLive]_vars /\ Fairness

(* ------------------------------------------------------- diagnostics *)

MaxDiagCalls == 2

\* (variant: the derived Debug, which prints the field)
DebugRegistryToken_derived(t) ==
    <<t.variant, IF t.variant = "Token" THEN "token" ELSE "access_token",
      token(t).name>>

\* impl fmt::Debug for RegistryToken: the variant, the field's name and the
\* placeholder in place of the field's value.
DebugRegistryToken(t) ==
    <<t.variant, IF t.variant = "Token" THEN "token" ELSE "access_token",
      "<redacted>">>

\* #[derive(Debug)] for RegistryTokenType
DebugRegistryTokenType(tok) ==
    IF tok.type = "Bearer" THEN <<"Bearer">> \o DebugRegistryToken(tok.bearer)
    ELSE <<"Basic", tok.username, tok.password>>

\* The events insert emits on a call that does not panic: each event is the
\* sequence of its level, its fields as formatted, and its message.
InsertEvents(reference, op, tok, epoch, default_secs) ==
    LET parsed == IF tok.type = "Bearer" THEN parse_unverified(token(tok.bearer))
                  ELSE [ok |-> TRUE, err |-> "", expiration |-> NoU64]
        resolved == Expiration(tok, epoch, default_secs)
        inserting == <<"DEBUG", resolve_registry(reference), repository(reference),
                       op, ToString(resolved.expiration), "Inserting token">>
    IN
    IF parsed.ok THEN <<inserting>>
    ELSE IF parsed.err = "NoClaimsComponent"
      THEN << <<"DEBUG">> \o DebugRegistryTokenType(tok) \o
                <<"Cannot extract expiration from token's claims, assuming a {} seconds validity",
                  ToString(default_secs)>>,
              inserting >>
      ELSE << <<"WARN", parsed.err, "Invalid bearer token">> >>

\* The event get emits.
GetEvents(key, found, epoch) ==
    IF found.some
      THEN << <<"DEBUG", key.registry, key.repository, key.operation,
                ToString(found.value.expiration), "miss=false",
                IF Expired(epoch, found.value.expiration)
                  THEN "expired=true" ELSE "expired=false",
                "Fetching token">> >>
      ELSE << <<"DEBUG", key.registry, key.repository, key.operation,
                "miss=true", "Fetching token">> >>

\* The cache with a subscriber collecting what each step emits.
NextDiagnostics ==
    \/ Tick /\ log' = << >> /\ UNCHANGED <<clones, server>>
    \/ /\ calls < MaxDiagCalls
       /\ \E t \in Tasks, rq \in Requests, tok \in InputTokens :
             /\ Insert(t, rq[1], rq[2], tok)
             /\ log' = IF pc'[t] = "panicked" THEN << >>
                        ELSE InsertEvents(rq[1], rq[2], tok, now, default_expiration_secs)
       /\ UNCHANGED <<clones, server>>
    \/ /\ \E t \in Tasks : InsertWrite(t)
       /\ log' = << >>
       /\ UNCHANGED <<clones, server>>
    \/ /\ calls < MaxDiagCalls
       /\ \E t \in Tasks, rq \in Requests : Get(t, rq[1], rq[2])
       /\ log' = << >>
       /\ UNCHANGED <<clones, server>>
    \/ /\ \E t \in Tasks :
             /\ GetRead(t)
             /\ log' = GetEvents(call[t].key, BTreeMapGet(tokens, call[t].key), now)
       /\ UNCHANGED <<clones, server>>

SpecDiagnostics == Init /\ [][NextDiagnostics]_vars

(* ------------------------------------------------ the callback server *)

MaxConnections == 3

MaxRequests == 2

\* StatusCode::OK, the status of Response::new
OK == 200

\* StatusCode::NOT_FOUND
NOT_FOUND == 404

\* StatusCode::NOT_IMPLEMENTED
NOT_IMPLEMENTED == 501

\* A path is a sequence of symbols: "/" or a run of other characters.
Slash == "/"

\* The request targets sent to the server: the empty path of an
\* authority-form target, the asterisk form, the root, the two kubelet
\* paths with all, too few and too many segments and with empty segments,
\* and paths of other resources.
Paths ==
    { << >>,
      <<"*">>,
      <<Slash>>,
      <<Slash, "healthz">>,
      <<Slash, "containerLogs", Slash, "ns", Slash, "pod", Slash, "c">>,
      <<Slash, "containerLogs", Slash, Slash, "pod", Slash, "c">>,
      <<Slash, "containerLogs", Slash, "ns", Slash, Slash, "c">>,
      <<Slash, "containerLogs", Slash, "ns", Slash, "pod", Slash>>,
      <<Slash, "containerLogs", Slash, "ns", Slash, "pod">>,
      <<Slash, "containerLogs", Slash, "ns", Slash, "pod", Slash, "c", Slash, "x">>,
      <<Slash, "exec", Slash, "ns", Slash, "pod", Slash, "c">>,
      <<Slash, "exec", Slash, "ns", Slash, "pod">>,
      <<Slash, "exec", Slash, Slash, "pod", Slash, "c">>,
      <<Slash, "logs", Slash, "ns", Slash, "pod", Slash, "c">> }

Methods == {"GET", "POST", "PUT"}

\* What Provider::logs returns: Ok(data) or Err(e).
LogsResults == { [ok |-> TRUE, data |-> "log data"], [ok |-> FALSE, data |-> ""] }

\* What a connection attempt turns out to be when the loop takes it: a
\* stream whose TLS handshake succeeds or fails, an error of the listener,
\* or the end of the listener's stream.
Attempts == {"ok", "tls_err", "tcp_err", "end"}

\* str::split('/'): the pieces between the separators, empty ones included.
RECURSIVE Split(_)
Split(path) ==
    IF \A i \in DOMAIN path : path[i] # Slash THEN <<path>>
    ELSE LET i == CHOOSE j \in DOMAIN path :
                    path[j] = Slash /\ \A k \in 1 .. (j - 1) : path[k] # Slash
         IN <<SubSeq(path, 1, i - 1)>> \o Split(SubSeq(path, i + 1, Len(path)))

get_ping == [status |-> OK, body |-> "this is the Krustlet HTTP server", arg |-> << >>]

post_exec == [status |-> NOT_IMPLEMENTED, body |-> "Not Implemented", arg |-> << >>]

\* the catch-all arm of the routing match
NotFound == [status |-> NOT_FOUND, body |-> "Not Found", arg |-> << >>]

\* the two early returns of get_container_logs
ResourceNotFound(path) ==
    [status |-> NOT_FOUND, body |-> "Resource {} not found", arg |-> path]

get_container_logs(path, logs) ==
    LET segs == Split(path) IN
    IF Len(segs) # 5 THEN ResourceNotFound(path)
    ELSE IF segs[3] = << >> \/ segs[4] = << >> \/ segs[5] = << >>
      THEN ResourceNotFound(path)
    ELSE IF logs.ok THEN [status |-> OK, body |-> logs.data, arg |-> << >>]
    ELSE [status |-> NOT_IMPLEMENTED, body |-> "Not Implemented", arg |-> << >>]

\* (variant: the root path is answered with the ping message)
Route_ping_at_root(method, path, logs) ==
    LET segs == Split(path)
        path_len == Len(segs)
    IN
    IF path_len <= 2 THEN get_ping
    ELSE IF method = "GET" /\ segs[2] = <<"containerLogs">> /\ path_len = 5
      THEN get_container_logs(path, logs)
    ELSE IF method = "POST" /\ segs[2] = <<"exec">> /\ path_len = 5
      THEN post_exec
    ELSE NotFound

\* The service function: the response to one request.
Route(method, path, logs) ==
    LET segs == Split(path)
        path_len == Len(segs)
    IN
    IF path_len < 2 THEN get_ping
    ELSE IF method = "GET" /\ segs[2] = <<"containerLogs">> /\ path_len = 5
      THEN get_container_logs(path, logs)
    ELSE IF method = "POST" /\ segs[2] = <<"exec">> /\ path_len = 5
      THEN post_exec
    ELSE NotFound

\* (variant: a failed handshake is skipped and the loop goes on)
AcceptOne_skips_failed_handshake(sv, attempt) ==
    IF attempt.outcome = "ok"
      THEN [sv EXCEPT !.yielded = Append(@, attempt.id)]
    ELSE IF attempt.outcome = "tls_err" THEN sv
    ELSE [sv EXCEPT !.accepting = FALSE]

\* One turn of the accept loop on what incoming.next() returned: yield the
\* stream whose handshake succeeded, break on anything else.
AcceptOne(sv, attempt) ==
    IF attempt.outcome = "ok"
      THEN [sv EXCEPT !.yielded = Append(@, attempt.id)]
      ELSE [sv EXCEPT !.accepting = FALSE]

\* A client connects, or the listener fails or ends: one more item for
\* incoming.next() to return.
Connect(outcome) ==
    /\ server.arrived < MaxConnections
    /\ server' = [server EXCEPT
          !.arrived = @ + 1,
          !.incoming = Append(@, [id |-> server.arrived + 1, outcome |-> outcome])]

\* The accept loop takes the next item.
Accept ==
    /\ server.accepting
    /\ server.incoming # << >>
    /\ server' = AcceptOne([server EXCEPT !.incoming = Tail(@),
                                          !.taken = Append(@, Head(server.incoming))],
                           Head(server.incoming))

\* hyper serves a request on a connection it was given.
Serve(conn, method, path, logs) ==
    /\ \E i \in DOMAIN server.yielded : server.yielded[i] = conn
    /\ server.requests < MaxRequests
    /\ server' = [server EXCEPT
          !.requests = @ + 1,
          !.exchange = [conn |-> conn, method |-> method, path |-> path,
                        logs |-> logs, response |-> Route(method, path, logs)]]

NextServer ==
    \/ (\E outcome \in Attempts : Connect(outcome))
          /\ UNCHANGED <<cache_vars, log, clones>>
    \/ Accept /\ UNCHANGED <<cache_vars, log, clones>>
    \/ (\E conn \in 1 .. MaxConnections, method \in Methods, path \in Paths,
            logs \in LogsResults : Serve(conn, method, path, logs))
          /\ UNCHANGED <<cache_vars, log, clones>>

SpecServer == Init /\ [][NextServer]_vars

(* ------------------------------------------------------------- properties *)

\* the step on which task t's get returns
GetReturns(t) == pc[t] = "get_read" /\ pc'[t] = "idle"

\* the step on which task t's insert stores its entry and returns
InsertStores(t) == pc[t] = "insert_write" /\ pc'[t] = "idle"

\* a step on which task t calls insert or get
Calls(t) == pc[t] = "idle" /\ calls' # calls

\* the key the last completed call was about
LastKey ==
    [registry |-> resolve_registry(last.reference),
     repository |-> repository(last.reference),
     operation |-> last.op]

\* a bearer token whose claim set decodes and declares an expiration
DeclaresExpiration(tok) ==
    /\ tok.type = "Bearer"
    /\ token(tok.bearer).components = 3
    /\ token(tok.bearer).decodes
    /\ token(tok.bearer).exp # NoU64

\* a bearer token whose claim set decodes and declares no expiration
DeclaresNoExpiration(tok) ==
    /\ tok.type = "Bearer"
    /\ token(tok.bearer).components = 3
    /\ token(tok.bearer).decodes
    /\ token(tok.bearer).exp = NoU64

\* C1: a get returns a token iff the map holds an entry for its key whose
\* expiration is >= the clock value the get reads, and then it returns that
\* entry's token; expiration = now is a hit, expiration < now never is.
C1_HitIffPresentAndUnexpired ==
    [][\A t \in Tasks : GetReturns(t) =>
          LET k == call[t].key IN
          /\ last'.fn = "get"
          /\ (last'.token # None) <=>
                (k \in DOMAIN tokens /\ tokens[k].expiration >= now)
          /\ (last'.token # None) => last'.token = tokens[k].token]_vars

\* a get has returned a hit on an entry whose expiration is the very
\* second the get read
C1_Witness ==
    /\ last.fn = "get"
    /\ last.token # None
    /\ last.epoch = last.expiration

\* C2: while the entry of a key holds a bearer token whose claims declare
\* expiration E, a get on the key at a clock value <= E returns that token
\* and a get at a clock value > E returns nothing.
C2_DeclaredExpirationDecides ==
    [][\A t \in Tasks : GetReturns(t) =>
          LET k == call[t].key IN
          (k \in DOMAIN tokens /\ DeclaresExpiration(tokens[k].token)) =>
             last'.token =
                IF now <= token(tokens[k].token.bearer).exp
                  THEN tokens[k].token ELSE None]_vars

\* a get has missed on a present entry whose bearer token declared an
\* expiration that had passed
C2_Witness ==
    /\ last.fn = "get"
    /\ last.token = None
    /\ last.present
    /\ LastKey \in DOMAIN tokens
    /\ DeclaresExpiration(tokens[LastKey].token)
    /\ last.epoch = token(tokens[LastKey].token.bearer).exp + 1

\* C3: an insert of a bearer token whose claim set parses but carries no
\* expiration resolves the expiration to store as
\* (clock at insert) + default_expiration_secs.
C3_NoExpirationClaimGetsDefault ==
    [][\A t \in Tasks : Calls(t) =>
          \A tok \in InputTokens, rq \in Requests :
             (DeclaresNoExpiration(tok) /\ Insert(t, rq[1], rq[2], tok)) =>
                call'[t].expiration = now + default_expiration_secs]_vars

\* C4: an entry holding basic credentials has the maximum representable
\* expiration, and every get on its key returns the credentials, whatever
\* the clock.
C4_BasicNeverExpires ==
    [][\A t \in Tasks : GetReturns(t) =>
          LET k == call[t].key IN
          (k \in DOMAIN tokens /\ tokens[k].token.type = "Basic") =>
             /\ tokens[k].expiration = U64_MAX
             /\ last'.token = tokens[k].token]_vars

\* a get has returned basic credentials with the clock at its maximum
C4_Witness ==
    /\ last.fn = "get"
    /\ last.token.type = "Basic"
    /\ last.epoch = U64_MAX

\* C5 as stated: a get on a key whose latest insert carried a malformed
\* token returns nothing, whatever the key held before.
C5_MissAfterMalformedInsert ==
    [][\A t \in Tasks : GetReturns(t) =>
          (call[t].key \in DOMAIN rejected_over => last'.token = None)]_vars

\* C5 as amended: a get on a key whose latest insert carried a malformed
\* token returns what the key held before that insert: nothing if the key
\* held no entry or holds an expired one, else the earlier entry's token.
C5_MalformedInsertLeavesAnswer ==
    [][\A t \in Tasks : GetReturns(t) =>
          LET k == call[t].key IN
          k \in DOMAIN rejected_over =>
             last'.token =
                IF rejected_over[k].some
                   /\ now <= rejected_over[k].value.expiration
                  THEN rejected_over[k].value.token ELSE None]_vars

\* a get has returned the earlier token of a key whose latest insert
\* carried a malformed token
C5_Witness ==
    /\ last.fn = "get"
    /\ last.token # None
    /\ LastKey \in DOMAIN rejected_over

\* C6: an insert of a malformed bearer token returns at once, leaving the
\* map and the lock as they were; no task ever stores a malformed token.
C6_MalformedInsertIsNoOp ==
    [][/\ \A t \in Tasks : Calls(t) =>
             \A tok \in InputTokens, rq \in Requests :
                (Malformed(tok) /\ Insert(t, rq[1], rq[2], tok)) =>
                   /\ UNCHANGED <<tokens, readers, writer, waiters>>
                   /\ pc'[t] = "idle"
       /\ \A t \in Tasks : InsertStores(t) => ~Malformed(call[t].token)
       /\ \A k \in DOMAIN tokens' : ~Malformed(tokens'[k].token)]_vars

\* an insert of a malformed token has returned on a key that holds an entry
C6_Witness ==
    /\ last.fn = "insert"
    /\ Malformed(last.token)
    /\ ~last.stored
    /\ LastKey \in DOMAIN tokens

\* C7: an accepted insert leaves under its key exactly its own token and
\* the expiration resolved for it, whatever the key held before.
C7_LaterInsertWins ==
    [][\A t \in Tasks : InsertStores(t) =>
          /\ call[t].key \in DOMAIN tokens'
          /\ tokens'[call[t].key] =
                TokenCacheValue(call[t].token, call[t].expiration)]_vars

\* an insert has replaced an entry by one that expires earlier
C7_Witness ==
    /\ last.fn = "insert"
    /\ last.stored
    /\ last.present
    /\ tokens[LastKey].token # None
    /\ tokens[LastKey].expiration < last.expiration

\* what the map holds under a key
Entry(map, k) == IF k \in DOMAIN map THEN map[k] ELSE TokenCacheValue(None, NoU64)

\* C8: an entry changes only on an insert whose (registry, repository,
\* operation) is exactly its key, and a get returns a token only if the map
\* holds an entry under exactly the get's triple, and then that entry's.
C8_KeysIndependent ==
    [][/\ \A k \in Keys : Entry(tokens', k) # Entry(tokens, k) =>
             \E t \in Tasks :
                /\ InsertStores(t)
                /\ k.registry = resolve_registry(call[t].reference)
                /\ k.repository = repository(call[t].reference)
                /\ k.operation = call[t].op
       /\ \A t \in Tasks : (GetReturns(t) /\ last'.token # None) =>
             \E k \in DOMAIN tokens :
                /\ k.registry = resolve_registry(call[t].reference)
                /\ k.repository = repository(call[t].reference)
                /\ k.operation = call[t].op
                /\ last'.token = tokens[k].token]_vars

\* a get has missed on an absent key while the same registry and
\* repository hold an unexpired entry under the other operation
C8_Witness ==
    /\ last.fn = "get"
    /\ last.token = None
    /\ ~last.present
    /\ \E k \in DOMAIN tokens :
          /\ k.registry = LastKey.registry
          /\ k.repository = LastKey.repository
          /\ k.operation # LastKey.operation
          /\ tokens[k].expiration >= now

\* C9: after concurrent inserts on disjoint keys, a get on the key of task
\* u returns the token task u inserted whenever the entry is not expired,
\* and never any other token.
C9_NoCrossContamination ==
    [][\A t \in Tasks : GetReturns(t) =>
          \E u \in Tasks :
             /\ call[t].reference = OwnRequest(u)[1]
             /\ call[t].op = OwnRequest(u)[2]
             /\ last'.token \in {None, OwnToken(u)}
             /\ now <= tokens[OwnKey(u)].expiration => last'.token = OwnToken(u)]_vars

\* a get has returned the token of its key while another task's get on
\* another key was in flight, every task having inserted
C9_Witness ==
    /\ last.fn = "get"
    /\ last.raced
    /\ \A u \in Tasks : OwnKey(u) \in DOMAIN tokens
    /\ \E u \in Tasks :
          /\ LastKey = OwnKey(u)
          /\ last.token = OwnToken(u)
          /\ \E v \in Tasks \ {u} :
                /\ pc[v] = "get_read"
                /\ call[v].key # LastKey

\* C10: a get leaves the map as it is, a key once present stays present,
\* and an entry changes only on an insert that stores under its key.
C10_GetReadsOnly ==
    [][/\ \A t \in Tasks : (pc[t] = "idle" /\ pc'[t] = "get_read") => tokens' = tokens
       /\ \A t \in Tasks : GetReturns(t) => tokens' = tokens
       /\ DOMAIN tokens \subseteq DOMAIN tokens'
       /\ \A k \in DOMAIN tokens : tokens'[k] # tokens[k] =>
             \E t \in Tasks : InsertStores(t) /\ call[t].key = k]_vars

\* a get has missed on an expired entry, which is still in the map
C10_Witness ==
    /\ last.fn = "get"
    /\ last.token = None
    /\ last.present
    /\ LastKey \in DOMAIN tokens
    /\ tokens[LastKey].expiration = last.expiration
    /\ last.expiration < last.epoch

(* ------------------------------------------------------------ the lock *)

\* the tasks queued for the lock
Waiting == {waiters[i] : i \in DOMAIN waiters}

\* task t is inside insert's write section (between write() and the drop)
HoldsWrite(t) == pc[t] = "insert_write" /\ t \notin Waiting

\* task t is inside get's read section (between read() and the drop)
HoldsRead(t) == pc[t] = "get_read" /\ t \notin Waiting

\* C11: no insert is inside the write section while another insert is
\* inside it or while any get is inside the read section; the lock's
\* bookkeeping agrees with where the tasks are, so the map insert (one step
\* taken by the holder of the write guard) happens with no get inside.
C11_WritersExclusive ==
    /\ \A t \in Tasks : HoldsWrite(t) =>
          \A u \in Tasks \ {t} : ~HoldsWrite(u) /\ ~HoldsRead(u)
    /\ \A t \in Tasks : HoldsWrite(t) <=> writer = t
    /\ \A t \in Tasks : HoldsRead(t) <=> t \in readers

\* an insert holds the write guard while a get is kept waiting by it
C11_Witness ==
    \E t, u \in Tasks :
        /\ HoldsWrite(t)
        /\ pc[u] = "get_read" /\ u \in Waiting

\* an insert holds the write guard or is queued for it
InsertPending == \E u \in Tasks : pc[u] = "insert_write"

\* C12: a get that calls read() while no insert holds or waits for the lock
\* enters the read section at once, next to the gets already inside; and
\* in every state a get that is waiting has an insert holding or waiting
\* for the lock.
C12_ReadersShare ==
    [][(\A t \in Tasks :
           (Calls(t) /\ pc'[t] = "get_read" /\ ~InsertPending) =>
               (HoldsRead(t)' /\ \A u \in Tasks : HoldsRead(u) => HoldsRead(u)'))
       /\ ((\E t \in Tasks : pc'[t] = "get_read" /\ t \in Waiting') => InsertPending')
      ]_vars

\* two gets are inside the read section at the same time
C12_Witness ==
    \E t, u \in Tasks : t # u /\ HoldsRead(t) /\ HoldsRead(u)

(* ---------------------------------------------------------------- clones *)

\* C13: all clones point to one allocation; a get through any handle
\* returns the token of the latest accepted insert on its key, whichever
\* handle that insert went through (or nothing if none, or if it expired);
\* and no handle is inside the write section while any other handle is
\* inside the write or the read section.
C13_ClonesShareStore ==
    [][/\ \A h, g \in Handles : clones.handles[h].arc = clones.handles[g].arc
       /\ \A h, g \in Handles :
             (h # g /\ clones.handles[h].pc = "insert_write") =>
                 clones.handles[g].pc = "idle"
       /\ \A h \in Handles :
             (clones.handles[h].pc = "get_read" /\ clones'.handles[h].pc = "idle") =>
                 LET k == clones.handles[h].call.key
                     w == BTreeMapGet(clones.written, k)
                 IN clones'.seen.token =
                      IF w.some /\ ~Expired(now, w.value.expiration)
                        THEN w.value.token ELSE None
      ]_vars

\* a get through one handle returned the token inserted through another
C13_Witness ==
    /\ clones.seen.token # None
    /\ clones.seen.key \in DOMAIN clones.written
    /\ clones.written[clones.seen.key].handle # clones.seen.handle
    /\ clones.written[clones.seen.key].token = clones.seen.token

(* ----------------------------------------------------------- diagnostics *)

\* the strings of the bearer tokens callers hand to insert
RawTokenStrings ==
    {token(tok.bearer).name : tok \in {x \in InputTokens : x.type = "Bearer"}}

\* the formatted pieces of event e
Pieces(e) == {e[i] : i \in DOMAIN e}

\* C14: no event emitted by insert or get has a token's string among its
\* pieces, and the event that formats the token shows the placeholder.
C14_NoTokenInDiagnostics ==
    \A i \in DOMAIN log :
        /\ Pieces(log[i]) \cap RawTokenStrings = {}
        /\ "Bearer" \in Pieces(log[i]) => "<redacted>" \in Pieces(log[i])

\* the fallback path has logged the token, followed by the insertion event
C14_Witness ==
    /\ Len(log) = 2
    /\ "<redacted>" \in Pieces(log[1])
    /\ "Inserting token" \in Pieces(log[2])

(* ------------------------------------------------- the fallback expiration *)

\* the bearer tokens the parser fails on
UnparsedTokens ==
    {x \in InputTokens : x.type = "Bearer" /\ ~parse_unverified(token(x.bearer)).ok}

\* C15: an insert of a bearer token the parser fails on goes on to store
\* the token under its key with expiration = clock + default_expiration_secs
\* when the failure is the missing claims component, and returns leaving
\* the map alone on every other failure; the store writes that entry.
C15_MissingClaimsFallsBack ==
    [][\A t \in Tasks :
         /\ Calls(t) =>
               \A rq \in Requests, tok \in UnparsedTokens :
                 Insert(t, rq[1], rq[2], tok) =>
                   IF parse_unverified(token(tok.bearer)).err = "NoClaimsComponent"
                     THEN /\ pc'[t] = "insert_write"
                          /\ call'[t].key = TokenCacheKey(rq[1], rq[2])
                          /\ call'[t].token = tok
                          /\ call'[t].expiration = now + default_expiration_secs
                     ELSE /\ pc'[t] = "idle"
                          /\ tokens' = tokens
                          /\ ~last'.stored
         /\ (InsertStores(t) /\ call[t].epoch # NoU64) =>
               Entry(tokens', call[t].key) =
                   TokenCacheValue(call[t].token, call[t].expiration)
      ]_vars

\* C18: the fallback addition never exceeds the u64 range: no insert
\* panics in it, and an insert on its way to the map with a fallback
\* expiration carries clock + default_expiration_secs, which is >= the
\* clock value it read.
C18_FallbackSumDoesNotWrap ==
    \A t \in Tasks :
        /\ pc[t] # "panicked"
        /\ (pc[t] = "insert_write" /\ call[t].epoch # NoU64) =>
              /\ call[t].expiration = call[t].epoch + default_expiration_secs
              /\ call[t].expiration >= call[t].epoch

(* -------------------------------------------------------------- progress *)

\* C16: under fair scheduling every insert and every get that has called
\* write() or read(), granted at once or queued, returns.
C16_CallsComplete ==
    \A t \in Tasks : (pc[t] \in {"insert_write", "get_read"}) ~> (pc[t] = "idle")

\* an insert is queued for the lock behind a get that holds it
C16_Witness ==
    \E t, u \in Tasks :
        /\ pc[t] = "insert_write" /\ t \in Waiting
        /\ HoldsRead(u)

(* ------------------------------------------------------- whole entries *)

\* the pair v = (token, expiration) is what insert resolves for the token
\* at some clock value up to `clock`
ResolvedPair(v, clock, default_secs) ==
    \E e \in 0 .. clock :
        LET r == Expiration(v.token, e, default_secs) IN
        ~r.reject /\ r.expiration = v.expiration

\* C17: every entry is the (token, expiration) pair of one insert call: an
\* entry changes only in the step of an insert holding the write guard on
\* its key, which leaves both the token and the expiration of that call;
\* every entry is a pair the resolver produces for its token; and a get
\* that returns a token returns the one stored with the expiration it
\* judged.
C17_EntriesWhole ==
    [][/\ \A k \in Keys :
             Entry(tokens', k) # Entry(tokens, k) =>
                 \E t \in Tasks :
                     /\ InsertStores(t) /\ HoldsWrite(t) /\ call[t].key = k
                     /\ Entry(tokens', k) =
                            TokenCacheValue(call[t].token, call[t].expiration)
       /\ \A k \in DOMAIN tokens' : ResolvedPair(tokens'[k], now', default_expiration_secs')
       /\ \A t \in Tasks :
             (GetReturns(t) /\ last'.token # None) =>
                 Entry(tokens, call[t].key) =
                     TokenCacheValue(last'.token, last'.expiration)
      ]_vars

\* an insert has stored its entry while an insert of another token with
\* another expiration is queued behind it on the same key
C17_Witness ==
    /\ last.fn = "insert"
    /\ last.stored
    /\ \E u \in Tasks :
          /\ pc[u] = "insert_write"
          /\ call[u].key = LastKey
          /\ call[u].token # tokens[LastKey].token
          /\ call[u].expiration # tokens[LastKey].expiration

(* ------------------------------------------------- the callback server *)

\* the number of '/'-separated segments of a path
NumSegments(path) == 1 + Cardinality({i \in DOMAIN path : path[i] = Slash})

\* the position of the k-th '/' of a path; 0 for k = 0, one past the end
\* when the path has fewer
SlashAt(path, k) ==
    IF k = 0 THEN 0
    ELSE IF k >= NumSegments(path) THEN Len(path) + 1
    ELSE CHOOSE p \in DOMAIN path :
           /\ path[p] = Slash
           /\ Cardinality({q \in 1 .. p : path[q] = Slash}) = k

\* the i-th segment of a path (the first is what precedes the first '/')
Segment(path, i) == SubSeq(path, SlashAt(path, i - 1) + 1, SlashAt(path, i) - 1)

\* C19: the response to a request is decided by its method, its second
\* segment and its number of segments: fewer than 2 segments, the ping
\* message; GET containerLogs with 5 segments, 404 if namespace, pod or
\* container is empty, else the provider's data with 200 or 501 on its
\* error; POST exec with 5 segments, 501; anything else, the root path
\* included, 404.
C19_Routing ==
    LET x == server.exchange
        n == NumSegments(x.path)
        logs_route == x.method = "GET" /\ n = 5 /\ Segment(x.path, 2) = <<"containerLogs">>
        exec_route == x.method = "POST" /\ n = 5 /\ Segment(x.path, 2) = <<"exec">>
    IN
    x.conn # 0 =>
        /\ n < 2 => x.response = get_ping
        /\ logs_route =>
              IF \E i \in 3 .. 5 : Segment(x.path, i) = << >>
                THEN x.response.status = NOT_FOUND
              ELSE IF x.logs.ok
                THEN x.response.status = OK /\ x.response.body = x.logs.data
              ELSE x.response.status = NOT_IMPLEMENTED
        /\ exec_route => x.response.status = NOT_IMPLEMENTED
        /\ (n >= 2 /\ ~logs_route /\ ~exec_route) => x.response.status = NOT_FOUND

\* the logs of a container were asked for and returned
C19_Witness ==
    /\ server.exchange.method = "GET"
    /\ Split(server.exchange.path) =
          << << >>, <<"containerLogs">>, <<"ns">>, <<"pod">>, <<"c">> >>
    /\ server.exchange.response = [status |-> OK, body |-> "log data", arg |-> << >>]

\* C20: the connections given to the server are exactly the attempts that
\* arrived before the first failed handshake, listener error or end of the
\* listener's stream, in arrival order; that item is the last one the loop
\* takes; only connections given to the server are served.
C20_AcceptStopsAtFirstFailure ==
    LET n == Len(server.yielded) IN
    /\ \A i \in 1 .. n :
          /\ server.yielded[i] = i
          /\ server.taken[i] = [id |-> i, outcome |-> "ok"]
    /\ Len(server.taken) = IF server.accepting THEN n ELSE n + 1
    /\ ~server.accepting => server.taken[n + 1].outcome # "ok"
    /\ server.exchange.conn \in 0 .. n

\* the loop has stopped at a failed handshake after yielding a connection,
\* and a client that connected later is left waiting
C20_Witness ==
    /\ ~server.accepting
    /\ Len(server.yielded) >= 1
    /\ server.taken[Len(server.taken)].outcome = "tls_err"
    /\ \E i \in DOMAIN server.incoming : server.incoming[i].outcome = "ok"

=============================================================================
